---- MODULE Spec2Model ----
(***************************************************************************)
(* Verification model of the LOESS / STL / RBF kernel regression notebooks *)
(*   src/homeworks/STL_ML.ipynb   loess_1d, SimpleSTL                       *)
(*   src/unnamed/part_000         SimpleRBFKernelRegression                 *)
(*                                                                         *)
(* Numbers.  The x-coordinates, query points, distances, tricube weights   *)
(* and bandwidths are exact integers / fractions <<num, den>>; every       *)
(* branch of the code (window size, thresholds, singular system) is        *)
(* decided on those exact values.  The y-values and everything computed    *)
(* from them (regression coefficients, estimates, STL components, kernel   *)
(* predictions) are real numbers that the code only adds, subtracts,       *)
(* multiplies and divides and never compares.  They are carried as the     *)
(* residue of the exact rational value in the prime field of Modulus       *)
(* elements: n/d is the residue n * d^(-1).  Equal rationals have equal    *)
(* residues, so an identity of the real-number computation holds of the    *)
(* residues; floating-point rounding is not modelled.                      *)
(***************************************************************************)
EXTENDS Integers, Sequences, FiniteSets, TLC

\* ------------------------------------------------------------------ bounds
MaxLen == 3        \* most observations given to loess_1d
MaxN == 4          \* longest series given to SimpleSTL.fit
MaxPeriod == 2     \* seasonal_period is 1..MaxPeriod
MaxInner == 2      \* n_inner_iterations is 0..MaxInner
MaxOuter == 1      \* n_outer_iterations is 0..MaxOuter
MaxLongPeriod == 4 \* seasonal_period is 1..MaxLongPeriod where only the defaults matter
MaxFits == 2       \* fit calls made on one re-fitted SimpleSTL instance
MaxRows == 2       \* most rows of X and most entries of y given to fit

\* the y-values of observations and series, and the x-coordinates and query
\* points given to loess_1d
Values == {0, 1}
Coords == {0, 1, 2}

\* ------------------------------------------------------- field of residues
Modulus == 2 * 23168 + 1

F(i) == i % Modulus
FAdd(a, b) == (a + b) % Modulus
FSub(a, b) == (a + Modulus - b) % Modulus
FMul(a, b) == (a * b) % Modulus

\* the inverse of a # 0: from Modulus = q * a + r, 1 / a = -q / r
RECURSIVE FInv(_)
FInv(a) == IF a <= 1 THEN a
           ELSE FMul(Modulus - (Modulus \div a), FInv(Modulus % a))
FDiv(a, b) == FMul(a, FInv(b))

\* ---------------------------------------------------------- numpy helpers
RECURSIVE SumSeq(_)
SumSeq(s) == IF s = <<>> THEN 0 ELSE Head(s) + SumSeq(Tail(s))

RECURSIVE FSum(_)
FSum(s) == IF s = <<>> THEN 0 ELSE FAdd(Head(s), FSum(Tail(s)))

MaxSeq(s) == CHOOSE m \in {s[k] : k \in DOMAIN s} : \A k \in DOMAIN s : s[k] <= m

Abs(i) == IF i < 0 THEN -i ELSE i

\* ceil(num / den) for den > 0
CeilDiv(num, den) == -((-num) \div den)

\* An array: the function f on 1..n evaluated, element by element, into a
\* sequence (every element is computed once).
RECURSIVE ArrayUpTo(_, _)
ArrayUpTo(f, k) == IF k = 0 THEN <<>> ELSE Append(ArrayUpTo(f, k - 1), f[k])
Array(f) == ArrayUpTo(f, Cardinality(DOMAIN f))

Zeros(m) == Array([k \in 1..m |-> 0])
Ones(m) == Array([k \in 1..m |-> 1])

\* np.argsort: the positions of s in ascending order of value, equal values
\* in their order of appearance
Rank(s, i) == 1 + Cardinality({j \in DOMAIN s : s[j] < s[i] \/ (s[j] = s[i] /\ j < i)})
argsort(s) ==
    LET rank == Array([i \in DOMAIN s |-> Rank(s, i)])
    IN  Array([k \in DOMAIN s |-> CHOOSE i \in DOMAIN s : rank[i] = k])

Take(s, idx) == Array([k \in DOMAIN idx |-> s[idx[k]]])

\* num / den < 1e-9 for num >= 0, den > 0
EpsInv == 1000000000
LtEps(num, den) == num < CeilDiv(den, EpsInv)

\* --------------------------------------------------------------- loess_1d
\* Number of points in the local window: int(ceil(bandwidth * n)), raised to
\* 2, then cut to n.  bandwidth is the fraction <<num, den>>.
WindowSizeNoMinimum(n, bandwidth) ==
    LET c == CeilDiv(bandwidth[1] * n, bandwidth[2])
    IN  IF c > n THEN n ELSE c

WindowSize(n, bandwidth) ==
    LET c == CeilDiv(bandwidth[1] * n, bandwidth[2])
        c2 == IF c < 2 THEN 2 ELSE c
    IN  IF c2 > n THEN n ELSE c2

Cube(i) == i * i * i

\* Tricube weights (1 - d^3)^3 with d = dist / max_dist, as the exact
\* fractions num[k] / den; uniform weights 1 when max_dist < 1e-9.
Weights(dist_window, max_dist) ==
    IF LtEps(max_dist, 1)
    THEN [num |-> Ones(Len(dist_window)), den |-> 1]
    ELSE [num |-> Array([k \in DOMAIN dist_window |->
                            Cube(Cube(max_dist) - Cube(dist_window[k]))]),
          den |-> Cube(Cube(max_dist))]

\* np.linalg.solve raises LinAlgError when X^T W X is singular.  Its
\* determinant sum(w)*sum(w x^2) - sum(w x)^2 equals the sum over pairs i < j
\* of w_i w_j (x_i - x_j)^2, whose terms are all >= 0 (weights are >= 0): the
\* matrix is singular exactly when no two points of positive weight differ
\* in x.
SingularXTWX(wnum, x_window) ==
    \A i, j \in DOMAIN x_window :
        wnum[i] = 0 \/ wnum[j] = 0 \/ x_window[i] = x_window[j]

\* The local window of query point p: the num_points_in_window observations
\* nearest to p
Window(x_sorted, y_sorted, p, bandwidth) ==
    LET distances == Array([k \in DOMAIN x_sorted |-> Abs(x_sorted[k] - p)])
        num_points_in_window == WindowSize(Len(x_sorted), bandwidth)
        nearest_indices == SubSeq(argsort(distances), 1, num_points_in_window)
    IN  [x_window |-> Take(x_sorted, nearest_indices),
         y_window |-> Take(y_sorted, nearest_indices),
         dist_window |-> Take(distances, nearest_indices)]

\* the weights as field elements
FieldWeights(weights) ==
    LET inv_den == FInv(F(weights.den))
    IN  Array([k \in DOMAIN weights.num |-> FMul(F(weights.num[k]), inv_den)])

\* X^T W X = [Sw Swx; Swx Swxx] and X^T W Y = [Swy; Swxy]
NormalEquations(x_window, y_window, W) ==
    [Sw |-> FSum(W),
     Swx |-> FSum(Array([k \in DOMAIN W |-> FMul(W[k], F(x_window[k]))])),
     Swxx |-> FSum(Array([k \in DOMAIN W |-> FMul(W[k], F(x_window[k] * x_window[k]))])),
     Swy |-> FSum(Array([k \in DOMAIN W |-> FMul(W[k], y_window[k])])),
     Swxy |-> FSum(Array([k \in DOMAIN W |->
                             FMul(FMul(W[k], F(x_window[k])), y_window[k])]))]

\* np.linalg.solve(XTWX, XTWY)
Solve2(ne) ==
    LET inv_det == FInv(FSub(FMul(ne.Sw, ne.Swxx), FMul(ne.Swx, ne.Swx)))
    IN  [a |-> FMul(FSub(FMul(ne.Swxx, ne.Swy), FMul(ne.Swx, ne.Swxy)), inv_det),
         b |-> FMul(FSub(FMul(ne.Sw, ne.Swxy), FMul(ne.Swx, ne.Swy)), inv_det),
         branch |-> "solve"]

\* the except branch: mean of the window when the weights sum to less than
\* 1e-9, else the weighted mean; slope 0
FallbackAlwaysWeighted(y_window, weights, ne) ==
    [a |-> FDiv(ne.Swy, ne.Sw), b |-> 0, branch |-> "weighted_mean"]

Fallback(y_window, weights, ne) ==
    IF LtEps(SumSeq(weights.num), weights.den)
    THEN [a |-> FDiv(FSum(y_window), F(Len(y_window))), b |-> 0, branch |-> "mean"]
    ELSE [a |-> FDiv(ne.Swy, ne.Sw), b |-> 0, branch |-> "weighted_mean"]

\* try: solve; except LinAlgError: fallback
Coefficients(win, weights, ne) ==
    IF SingularXTWX(weights.num, win.x_window)
    THEN Fallback(win.y_window, weights, ne)
    ELSE Solve2(ne)

Estimate(win, weights, coeffs, p) ==
    [est |-> FAdd(coeffs.a, FMul(coeffs.b, F(p))),
     a |-> coeffs.a, b |-> coeffs.b, branch |-> coeffs.branch,
     x_window |-> win.x_window, y_window |-> win.y_window, weights |-> weights]

WeightedFit(win, weights, p) ==
    Estimate(win, weights,
             Coefficients(win, weights,
                          NormalEquations(win.x_window, win.y_window, FieldWeights(weights))),
             p)

\* The body of the for loop at one query point p: window, weights, normal
\* equations, solve or fallback, estimate a + b * p.
LoessPoint(x_sorted, y_sorted, p, bandwidth) ==
    LET win == Window(x_sorted, y_sorted, p, bandwidth)
    IN  WeightedFit(win, Weights(win.dist_window, MaxSeq(win.dist_window)), p)

loess_1d(y, x, points, bandwidth) ==
    IF Len(x) = 0 THEN Zeros(Len(points))
    ELSE LET sort_indices == argsort(x)
             x_sorted == Take(x, sort_indices)
             y_sorted == Take(y, sort_indices)
         IN  Array([i \in DOMAIN points |->
                 LoessPoint(x_sorted, y_sorted, points[i], bandwidth).est])

\* ============================================================ state
VARIABLES
    \* one call of loess_1d: its arguments, its loop position, its result
    lo_y, lo_x, lo_points, lo_bandwidth,
    lo_pc,                  \* "call", "loop", "returned"
    lo_i,                   \* position of the for loop over points
    lo_estimated_points,
    lo_locals,              \* the names a and b of the loop body, which keep their
                            \* values from one iteration to the next
    \* one SimpleSTL instance: the attributes set by __init__ and fit
    seasonal_period, n_trend_bandwidth, n_lowpass_bandwidth,
    seasonal_smoother_span, trend_smoother_span, lowpass_smoother_span,
    n_inner_iterations, n_outer_iterations,
    seasonal, trend, residual,
    self_data, self_n, self_times,
    \* the fit call in progress on it
    stl_pc,                 \* "idle", "fit"
    outer_iter, inner_iter, \* positions of the two for loops of fit
    stl_args,               \* the optional arguments __init__ was given
    stl_outcome,            \* how the last fit call ended
    stl_fits,               \* fit calls made so far
    stl_history,            \* history: per inner pass of the fit call in progress
                            \* or last ended, the trend its detrend step used and
                            \* the trend its step 6 wrote
    \* one SimpleRBFKernelRegression instance
    sigma, lambda_reg, X_train, y_train, trained,
    krr_last,               \* the last call made on it and how it ended
    fit_completed,          \* history: a fit call has returned on the instance
    calls                   \* the predict calls in progress on it, one per caller

loVars == <<lo_y, lo_x, lo_points, lo_bandwidth, lo_pc, lo_i, lo_estimated_points,
           lo_locals>>

stlConfig == <<seasonal_period, n_inner_iterations, n_outer_iterations, stl_args>>
stlSpans == <<n_trend_bandwidth, n_lowpass_bandwidth,
              seasonal_smoother_span, trend_smoother_span, lowpass_smoother_span>>
stlResult == <<seasonal, trend, residual>>
stlData == <<self_data, self_n, self_times>>
stlCall == <<stl_pc, outer_iter, inner_iter, stl_outcome, stl_fits, stl_history>>
stlVars == <<stlConfig, stlSpans, stlResult, stlData, stlCall>>

krrFields == <<sigma, lambda_reg, X_train, y_train, trained>>
krrVars == <<krrFields, krr_last, fit_completed, calls>>

vars == <<loVars, stlVars, krrVars>>

\* Python's None and a present value
None == <<>>
Some(v) == <<v>>
Val(o) == o[1]

\* ------------------------------------------------------------ SimpleSTL
\* The state of a SimpleSTL instance that is not part of the specification
\* under check: constructed with seasonal_period = 1, never fitted.
STLIdle ==
    /\ seasonal_period = 1
    /\ n_trend_bandwidth = None /\ n_lowpass_bandwidth = None
    /\ seasonal_smoother_span = None /\ trend_smoother_span = None
    /\ lowpass_smoother_span = None
    /\ n_inner_iterations = 0 /\ n_outer_iterations = 0
    /\ seasonal = None /\ trend = None /\ residual = None
    /\ self_data = None /\ self_n = 0 /\ self_times = None
    /\ stl_pc = "idle" /\ outer_iter = 0 /\ inner_iter = 0
    /\ stl_args = [n_trend_bandwidth |-> None, n_lowpass_bandwidth |-> None,
                   seasonal_smoother_span |-> None, trend_smoother_span |-> None,
                   lowpass_smoother_span |-> None]
    /\ stl_outcome = "none"
    /\ stl_fits = 0
    /\ stl_history = <<>>

NoCall == [call |-> "none", outcome |-> "none", predictions |-> <<>>, n_test |-> 0,
           X_test |-> <<>>,
           warned |-> FALSE, kernel_built |-> FALSE, solved |-> "no", fitted_before |-> FALSE]

\* the callers that may be inside predict at the same time
Callers == {1, 2}

\* a caller that is not inside predict; the fields after pc are the local
\* variables of its predict call, at_call is the history of the attributes
\* the instance had when the call was made
NotCalling == [pc |-> "idle", X_test |-> <<>>, K_test_train |-> <<>>,
               K_train_train_reg |-> <<>>, singular |-> FALSE, X_seen |-> <<>>,
               alpha |-> <<>>, result |-> NoCall, at_call |-> <<>>]

\* The state of a SimpleRBFKernelRegression instance that is not part of the
\* specification under check: default arguments, never fitted.
KRRIdle ==
    /\ sigma = 2 /\ lambda_reg = 0
    /\ X_train = None /\ y_train = None /\ trained = FALSE
    /\ krr_last = NoCall
    /\ fit_completed = FALSE
    /\ calls = [t \in Callers |-> NotCalling]

\* a and b before the first iteration assigns them: the names are unbound
\* and no statement reads them, 0 stands for that
Unassigned == [a |-> 0, b |-> 0]

\* no loess_1d call under check
LoessIdle ==
    /\ lo_y = <<>> /\ lo_x = <<>> /\ lo_points = <<>>
    /\ lo_bandwidth = <<1, 1>>
    /\ lo_pc = "idle" /\ lo_i = 1 /\ lo_estimated_points = <<>>
    /\ lo_locals = Unassigned

\* default window lengths computed by fit from seasonal_period
DefaultTrendBandwidthAnyParity(period) ==
    LET c == CeilDiv(3 * period, 2)
    IN  IF c < 3 THEN 3 ELSE c

DefaultTrendBandwidth(period) ==
    LET c == CeilDiv(3 * period, 2)
        c2 == IF c % 2 = 0 THEN c + 1 ELSE c
    IN  IF c2 < 3 THEN 3 ELSE c2

DefaultLowpassBandwidth(period) ==
    LET c == period
        c2 == IF c % 2 = 0 THEN c + 1 ELSE c
    IN  IF c2 < 3 THEN 3 ELSE c2

\* np.arange(i, n, period): the 0-based indices of cycle-subseries i
PeriodIndices(i, n, period) ==
    Array([j \in 1..CeilDiv(n - i, period) |-> i + (j - 1) * period])

VSub(u, v) == Array([k \in DOMAIN u |-> FSub(u[k], v[k])])

\* step 7 of an inner pass: residual = data - seasonal - trend
ResidualNoTrend(dat, seas, trd) == VSub(dat, seas)

Residual(dat, seas, trd) == VSub(VSub(dat, seas), trd)

\* step 1: deseasonalized = data - trend
Detrend(dat, trd) == VSub(dat, trd)

\* step 2: every cycle-subseries i of deseasonalized is smoothed on its own
\* and written back at its positions; a subseries without members is skipped
SubseriesSmoothed(deseasonalized, tms, i, period, sspan) ==
    LET period_indices == PeriodIndices(i, Len(deseasonalized), period)
        period_times == Array([j \in DOMAIN period_indices |-> tms[period_indices[j] + 1]])
        period_values == Array([j \in DOMAIN period_indices |->
                                   deseasonalized[period_indices[j] + 1]])
    IN  IF Len(period_indices) > 0
        THEN loess_1d(period_values, period_times, period_times, sspan)
        ELSE <<>>

Scatter(smoothed_values, n, period) ==
    Array([k \in 1..n |-> smoothed_values[((k - 1) % period) + 1][((k - 1) \div period) + 1]])

SeasonalSmoothing(deseasonalized, tms, period, sspan) ==
    Scatter(Array([i1 \in 1..period |->
                      SubseriesSmoothed(deseasonalized, tms, i1 - 1, period, sspan)]),
            Len(deseasonalized), period)

\* step 3: seasonal_trend = loess of seasonal_smoothed with trend_smoother_span;
\* step 4: seasonal = seasonal_smoothed - seasonal_trend
NewSeasonal(seasonal_smoothed, tms, tspan) ==
    VSub(seasonal_smoothed, loess_1d(seasonal_smoothed, tms, tms, tspan))

\* step 5: detrended = data - seasonal; step 6: trend = loess of detrended
NewTrend(dat, tms, seas, tspan) == loess_1d(VSub(dat, seas), tms, tms, tspan)

\* steps 5 to 7 from the new seasonal component
TrendAndResidual(dat, seas, trd) ==
    [seasonal |-> seas, trend |-> trd, residual |-> Residual(dat, seas, trd)]

FromSeasonal(dat, tms, seas, tspan) ==
    TrendAndResidual(dat, seas, NewTrend(dat, tms, seas, tspan))

\* the bandwidth step 3 gives to loess_1d: self.trend_smoother_span
SeasonalTrendSpanLowpass(tspan, lspan) == lspan

SeasonalTrendSpan(tspan, lspan) == tspan

\* One inner pass of fit (steps 1 to 7) on series dat with time axis tms,
\* starting from trend trd; sspan, tspan and lspan are the attributes
\* seasonal_smoother_span, trend_smoother_span and lowpass_smoother_span.
InnerPass(dat, tms, trd, period, sspan, tspan, lspan) ==
    FromSeasonal(dat, tms,
                 NewSeasonal(SeasonalSmoothing(Detrend(dat, trd), tms, period, sspan),
                             tms, SeasonalTrendSpan(tspan, lspan)),
                 tspan)

\* count inner passes in a row, from the components comps
RECURSIVE InnerPasses(_, _, _, _, _, _, _, _)
InnerPasses(dat, tms, comps, period, sspan, tspan, lspan, count) ==
    IF count = 0 THEN comps
    ELSE InnerPasses(dat, tms,
                     InnerPass(dat, tms, comps.trend, period, sspan, tspan, lspan),
                     period, sspan, tspan, lspan, count - 1)

\* the components after fit with n_outer_iterations = 0 on the non-empty
\* series dat: the initial components, then n_inner inner passes
FitWithoutOuter(dat, tms, period, sspan, tspan, lspan, n_inner) ==
    InnerPasses(dat, tms,
                [seasonal |-> Zeros(Len(dat)), trend |-> Zeros(Len(dat)), residual |-> dat],
                period, sspan, tspan, lspan, n_inner)

\* the arguments fit is called with
Series == UNION {[1..k -> Values] : k \in 0..MaxN}
STLInputs ==
    {[type |-> "ndarray", ndim |-> 1, values |-> v] : v \in Series}
    \cup {[type |-> "ndarray", ndim |-> 2, values |-> <<>>],
          [type |-> "list", ndim |-> 1, values |-> <<>>]}

\* the optional arguments __init__ is called with
STLArgs ==
    {[n_trend_bandwidth |-> None, n_lowpass_bandwidth |-> None,
      seasonal_smoother_span |-> None, trend_smoother_span |-> None,
      lowpass_smoother_span |-> None],
     [n_trend_bandwidth |-> Some(5), n_lowpass_bandwidth |-> None,
      seasonal_smoother_span |-> Some(<<1, 2>>), trend_smoother_span |-> Some(<<1, 1>>),
      lowpass_smoother_span |-> None],
     [n_trend_bandwidth |-> None, n_lowpass_bandwidth |-> Some(5),
      seasonal_smoother_span |-> None, trend_smoother_span |-> None,
      lowpass_smoother_span |-> Some(<<1, 2>>)]}

\* the attributes __init__ sets from its arguments stl_args, and the state
\* of an instance no fit was called on
STLConstructed ==
    /\ n_trend_bandwidth = stl_args.n_trend_bandwidth
    /\ n_lowpass_bandwidth = stl_args.n_lowpass_bandwidth
    /\ seasonal_smoother_span = stl_args.seasonal_smoother_span
    /\ trend_smoother_span = stl_args.trend_smoother_span
    /\ lowpass_smoother_span = stl_args.lowpass_smoother_span
    /\ seasonal = None /\ trend = None /\ residual = None
    /\ self_data = None /\ self_n = 0 /\ self_times = None
    /\ stl_pc = "idle" /\ outer_iter = 0 /\ inner_iter = 0
    /\ stl_outcome = "none"
    /\ stl_fits = 0
    /\ stl_history = <<>>
    /\ LoessIdle
    /\ KRRIdle

\* SimpleSTL.__init__
STLInit ==
    /\ seasonal_period \in 1..MaxPeriod
    /\ n_inner_iterations \in 0..MaxInner
    /\ n_outer_iterations \in 0..MaxOuter
    /\ stl_args \in STLArgs
    /\ STLConstructed

\* the component set by the early return of fit on an empty series, where
\* old is its value before the call
EmptyComponentKept(old) == old

EmptyComponent(old) == Some(<<>>)

\* self.trend = np.zeros(self._n), where old is the attribute before the call
InitialTrendKept(old, n) ==
    IF old # None /\ Len(Val(old)) = n THEN Val(old) ELSE Zeros(n)

InitialTrend(old, n) == Zeros(n)

\* fit(data) from its entry to the first loop test: the type and shape
\* checks, the early return on an empty series, the initial components and
\* the default smoothing parameters
STLFitEnter(data) ==
    /\ stl_pc = "idle"
    /\ stl_fits' = stl_fits + 1
    /\ UNCHANGED stlConfig
    /\ IF data.type \notin {"ndarray", "Series"}
       THEN /\ stl_outcome' = "TypeError"
            /\ UNCHANGED <<stlSpans, stlResult, stlData, stl_pc, outer_iter, inner_iter,
                           stl_history>>
       ELSE IF data.ndim # 1
       THEN /\ stl_outcome' = "ValueError"
            /\ UNCHANGED <<stlSpans, stlResult, stlData, stl_pc, outer_iter, inner_iter,
                           stl_history>>
       ELSE LET n == Len(data.values)
                ntb == IF n_trend_bandwidth = None
                       THEN Some(DefaultTrendBandwidth(seasonal_period))
                       ELSE n_trend_bandwidth
                nlb == IF n_lowpass_bandwidth = None
                       THEN Some(DefaultLowpassBandwidth(seasonal_period))
                       ELSE n_lowpass_bandwidth
            IN  /\ self_data' = Some([k \in 1..n |-> F(data.values[k])])
                /\ self_n' = n
                /\ stl_history' = <<>>
                /\ IF n = 0
                   THEN /\ seasonal' = EmptyComponent(seasonal)
                        /\ trend' = EmptyComponent(trend)
                        /\ residual' = EmptyComponent(residual)
                        /\ stl_outcome' = "returned"
                        /\ UNCHANGED <<stlSpans, self_times, stl_pc, outer_iter, inner_iter>>
                   ELSE /\ self_times' = Some(Array([k \in 1..n |-> k - 1]))
                        /\ seasonal' = Some(Zeros(n))
                        /\ trend' = Some(InitialTrend(trend, n))
                        /\ residual' = Some(Array([k \in 1..n |-> F(data.values[k])]))
                        /\ seasonal_smoother_span' =
                              IF seasonal_smoother_span = None
                              THEN Some(<<7, n>>) ELSE seasonal_smoother_span
                        /\ n_trend_bandwidth' = ntb
                        /\ n_lowpass_bandwidth' = nlb
                        /\ trend_smoother_span' =
                              IF trend_smoother_span = None
                              THEN Some(<<Val(ntb), n>>) ELSE trend_smoother_span
                        /\ lowpass_smoother_span' =
                              IF lowpass_smoother_span = None
                              THEN Some(<<Val(nlb), n>>) ELSE lowpass_smoother_span
                        /\ stl_pc' = "fit"
                        /\ outer_iter' = 0
                        /\ inner_iter' = 0
                        /\ stl_outcome' = "running"
    /\ UNCHANGED <<loVars, krrVars>>

\* one iteration of the inner for loop
STLInnerPass ==
    /\ stl_pc = "fit"
    /\ outer_iter < n_outer_iterations + 1
    /\ inner_iter < n_inner_iterations
    /\ \E r \in {InnerPass(Val(self_data), Val(self_times), Val(trend), seasonal_period,
                           Val(seasonal_smoother_span), Val(trend_smoother_span),
                           Val(lowpass_smoother_span))} :
           /\ seasonal' = Some(r.seasonal)
           /\ trend' = Some(r.trend)
           /\ residual' = Some(r.residual)
           /\ stl_history' = Append(stl_history,
                                    [used_trend |-> Val(trend), wrote_trend |-> r.trend])
    /\ inner_iter' = inner_iter + 1
    /\ UNCHANGED <<stlConfig, stlSpans, stlData, stl_pc, outer_iter, stl_outcome, stl_fits>>
    /\ UNCHANGED <<loVars, krrVars>>

\* the inner loop is exhausted: next iteration of the outer for loop
STLNextOuterResetsTrend ==
    /\ stl_pc = "fit"
    /\ outer_iter < n_outer_iterations + 1
    /\ inner_iter >= n_inner_iterations
    /\ outer_iter' = outer_iter + 1
    /\ inner_iter' = 0
    /\ trend' = IF outer_iter + 1 < n_outer_iterations + 1
                THEN Some(Zeros(self_n)) ELSE trend
    /\ UNCHANGED <<stlConfig, stlSpans, seasonal, residual, stlData, stl_pc, stl_outcome,
                   stl_fits, stl_history>>
    /\ UNCHANGED <<loVars, krrVars>>

STLNextOuter ==
    /\ stl_pc = "fit"
    /\ outer_iter < n_outer_iterations + 1
    /\ inner_iter >= n_inner_iterations
    /\ outer_iter' = outer_iter + 1
    /\ inner_iter' = 0
    /\ UNCHANGED <<stlConfig, stlSpans, stlResult, stlData, stl_pc, stl_outcome, stl_fits,
                   stl_history>>
    /\ UNCHANGED <<loVars, krrVars>>

\* the outer loop is exhausted: fit returns
STLFitReturn ==
    /\ stl_pc = "fit"
    /\ outer_iter >= n_outer_iterations + 1
    /\ stl_pc' = "idle"
    /\ stl_outcome' = "returned"
    /\ UNCHANGED <<stlConfig, stlSpans, stlResult, stlData, outer_iter, inner_iter, stl_fits,
                   stl_history>>
    /\ UNCHANGED <<loVars, krrVars>>

\* get_components()
get_components ==
    [seasonal |-> seasonal, trend |-> trend, residual |-> residual]

\* a freshly constructed instance, any configuration, fitted once
STLNext ==
    \/ \E data \in STLInputs : stl_fits < 1 /\ STLFitEnter(data)
    \/ STLInnerPass
    \/ STLNextOuter
    \/ STLFitReturn

SpecSTL == STLInit /\ [][STLNext]_vars

\* an instance without outer iterations and with at most one inner
\* iteration, fitted again and again
STLRefitInit ==
    /\ STLInit
    /\ n_inner_iterations \in {0, 1}
    /\ n_outer_iterations = 0

STLRefitNext ==
    \/ \E data \in STLInputs : stl_fits < MaxFits /\ STLFitEnter(data)
    \/ STLInnerPass
    \/ STLNextOuter
    \/ STLFitReturn

SpecSTLRefit == STLRefitInit /\ [][STLRefitNext]_vars

\* instances constructed with seasonal_period 1 or 2 alone, with up to two inner
\* and up to one outer iteration, fitted twice
STLPassesInit ==
    /\ STLInit
    /\ stl_args = [n_trend_bandwidth |-> None, n_lowpass_bandwidth |-> None,
                   seasonal_smoother_span |-> None, trend_smoother_span |-> None,
                   lowpass_smoother_span |-> None]
    /\ seasonal_period \in {1, 2}
    /\ n_inner_iterations \in {0, 1, 2}
    /\ n_outer_iterations \in {0, 1}

STLPassesNext ==
    \/ \E data \in STLInputs : stl_fits < 2 /\ STLFitEnter(data)
    \/ STLInnerPass
    \/ STLNextOuter
    \/ STLFitReturn

SpecSTLPasses == STLPassesInit /\ [][STLPassesNext]_vars

\* instances of longer seasonal periods, with at most one inner iteration and
\* no outer iteration, fitted once
STLDefaultsInit ==
    /\ seasonal_period \in 1..MaxLongPeriod
    /\ n_inner_iterations \in {0, 1}
    /\ n_outer_iterations = 0
    /\ stl_args \in STLArgs
    /\ STLConstructed

SpecSTLDefaults == STLDefaultsInit /\ [][STLNext]_vars

\* ------------------------------------------------ matrices (rows of rows)
NRows(A) == Len(A)
Col(A, j) == Array([i \in DOMAIN A |-> A[i][j]])
Transpose(A, ncols) == Array([j \in 1..ncols |-> Col(A, j)])
Dot(u, v) == FSum(Array([k \in DOMAIN u |-> FMul(u[k], v[k])]))
MatVec(A, v) == Array([i \in DOMAIN A |-> Dot(A[i], v)])
\* A @ B with B given by its transpose Bt (the columns of B)
MatMulT(A, Bt) == Array([i \in DOMAIN A |-> Array([j \in DOMAIN Bt |-> Dot(A[i], Bt[j])])])

Without(s, k) == Array([i \in 1..(Len(s) - 1) |-> IF i < k THEN s[i] ELSE s[i + 1]])
Minor(A, j) == Array([i \in 1..(Len(A) - 1) |-> Without(A[i + 1], j)])

\* determinant by expansion along the first row, over the integers
RECURSIVE IntDet(_)
IntDetTerms(A) ==
    Array([j \in DOMAIN A |-> (IF j % 2 = 1 THEN 1 ELSE -1) * A[1][j] * IntDet(Minor(A, j))])
IntDet(A) == IF Len(A) = 0 THEN 1 ELSE SumSeq(IntDetTerms(A))

\* the same over the field
RECURSIVE FDet(_)
FDetTerms(A) ==
    Array([j \in DOMAIN A |->
              IF j % 2 = 1 THEN FMul(A[1][j], FDet(Minor(A, j)))
              ELSE FSub(0, FMul(A[1][j], FDet(Minor(A, j))))])
FDet(A) == IF Len(A) = 0 THEN 1 ELSE FSum(FDetTerms(A))

ReplaceCol(A, j, v) == Array([i \in DOMAIN A |-> [A[i] EXCEPT ![j] = v[i]]])

\* the solution x of A x = v for a non-singular square A (Cramer's rule)
FSolve(A, v) ==
    LET inv_det == FInv(FDet(A))
    IN  Array([j \in DOMAIN A |-> FMul(FDet(ReplaceCol(A, j, v)), inv_det)])

UnitVec(n, j) == Array([i \in 1..n |-> IF i = j THEN 1 ELSE 0])
\* the inverse of a non-singular square A, by its rows (A symmetric or not):
\* column j of the inverse solves A x = e_j
FInverseT(A) == Array([j \in DOMAIN A |-> FSolve(A, UnitVec(Len(A), j))])

\* ---------------------------------------------- SimpleRBFKernelRegression
\* sigma is kept as the integer B > 1 with exp(-gamma) = 1 / B, that is
\* sigma = 1 / sqrt(2 ln B): the kernel value exp(-gamma * sq_dist) is then the
\* fraction 1 / B^sq_dist.
RECURSIVE IntPow(_, _)
IntPow(b, e) == IF e = 0 THEN 1 ELSE b * IntPow(b, e - 1)

SqNorm(row) == SumSeq(Array([k \in DOMAIN row |-> row[k] * row[k]]))
RowDot(r1, r2) == SumSeq(Array([k \in DOMAIN r1 |-> r1[k] * r2[k]]))

\* sq_dists[i][j] = ||x1_i||^2 + ||x2_j||^2 - 2 x1_i . x2_j, negative values
\* set to 0
SqDists(x1, x2) ==
    Array([i \in DOMAIN x1 |-> Array([j \in DOMAIN x2 |->
        LET sq == SqNorm(x1[i]) + SqNorm(x2[j]) - 2 * RowDot(x1[i], x2[j])
        IN  IF sq < 0 THEN 0 ELSE sq])])

\* _rbf_kernel for two 2-D arrays: the full kernel matrix
rbf_kernel(base, x1, x2) ==
    LET sq_dists == SqDists(x1, x2)
    IN  Array([i \in DOMAIN x1 |-> Array([j \in DOMAIN x2 |->
            FInv(F(IntPow(base, sq_dists[i][j])))])])

\* K_train_train + lambda_reg * np.eye(n_train_samples)
Regularized(K, lam) ==
    Array([i \in DOMAIN K |-> Array([j \in DOMAIN K |->
        FAdd(K[i][j], FMul(F(lam), IF i = j THEN 1 ELSE 0))])])

\* K_train_train_reg times the common denominator B^m of its entries (m the
\* largest squared distance): an integer matrix with the same null space
MaxSq(sq_dists) ==
    MaxSeq(Array([i \in DOMAIN sq_dists |-> MaxSeq(sq_dists[i])]))
ScaledReg(base, X, lam) ==
    LET sq_dists == SqDists(X, X)
        m == MaxSq(sq_dists)
    IN  Array([i \in DOMAIN X |-> Array([j \in DOMAIN X |->
            IntPow(base, m - sq_dists[i][j])
              + (IF i = j THEN lam * IntPow(base, m) ELSE 0)])])

\* np.linalg.solve raises LinAlgError exactly when the matrix is singular
SingularReg(base, X, lam) == IntDet(ScaledReg(base, X, lam)) = 0

\* np.linalg.pinv(A) @ v, by the full-rank factorisation A = C R with C a
\* maximal set of linearly independent columns of A:
\*   pinv(A) = R^T (R R^T)^-1 (C^T C)^-1 C^T
SortedSeq(S) == Array([k \in 1..Cardinality(S) |->
                   CHOOSE e \in S : Cardinality({f \in S : f < e}) = k - 1])
SubMatrix(A, rows, cols) ==
    Array([i \in DOMAIN rows |-> Array([j \in DOMAIN cols |-> A[rows[i]][cols[j]]])])
Independent(AI, J) ==
    \E I \in SUBSET (DOMAIN AI) :
        /\ Cardinality(I) = Cardinality(J)
        /\ IntDet(SubMatrix(AI, SortedSeq(I), SortedSeq(J))) # 0
Basis(AI) ==
    CHOOSE J \in SUBSET (DOMAIN AI) :
        /\ Independent(AI, J)
        /\ \A J2 \in SUBSET (DOMAIN AI) :
              Independent(AI, J2) => Cardinality(J2) <= Cardinality(J)

Gram(Rt, r) ==
    Array([a \in 1..r |-> Array([b \in 1..r |->
        FSum(Array([j \in DOMAIN Rt |-> FMul(Rt[j][a], Rt[j][b])]))])])
Combine(Rt, w) == Array([j \in DOMAIN Rt |-> Dot(Rt[j], w)])
PinvFactors(Ct, CtC, Rt, v) ==
    Combine(Rt, FSolve(Gram(Rt, Len(Ct)), FSolve(CtC, MatVec(Ct, v))))
PinvColumns(A, Ct, CtC, v) ==
    PinvFactors(Ct, CtC,
                Array([j \in DOMAIN A |-> FSolve(CtC, MatVec(Ct, Col(A, j)))]), v)
PinvBasis(A, Ct, v) == PinvColumns(A, Ct, MatMulT(Ct, Ct), v)
PinvTimes(A, AI, v) ==
    LET J == SortedSeq(Basis(AI))
    IN  PinvBasis(A, Array([a \in DOMAIN J |-> Col(A, J[a])]), v)

\* the feature matrices (one column) and target vectors of the calls
FeatureRows == {<<v>> : v \in Values}
Matrices == UNION {[1..k -> FeatureRows] : k \in 0..MaxRows}
Targets == UNION {[1..k -> Values] : k \in 0..MaxRows}
TestMatrices == UNION {[1..k -> FeatureRows] : k \in 0..2}

\* SimpleRBFKernelRegression.__init__
KRRInit ==
    /\ sigma \in {2, 3}
    /\ lambda_reg \in {0, 1}
    /\ X_train = None /\ y_train = None /\ trained = FALSE
    /\ krr_last = NoCall
    /\ fit_completed = FALSE
    /\ calls = [t \in Callers |-> NotCalling]
    /\ STLIdle
    /\ LoessIdle

\* fit(X, y): stores the training data
KRRFit(X, y) ==
    /\ X_train' = Some(X)
    /\ y_train' = Some(Array([k \in DOMAIN y |-> F(y[k])]))
    /\ trained' = TRUE
    /\ krr_last' = [NoCall EXCEPT !.call = "fit", !.outcome = "returned",
                                  !.fitted_before = fit_completed]
    /\ fit_completed' = TRUE
    /\ UNCHANGED <<sigma, lambda_reg, calls>>
    /\ UNCHANGED <<loVars, stlVars>>

\* alpha: np.linalg.solve, or pinv @ y_train after LinAlgError
AlphaNoFallback(K_train_train_reg, singular, base, Xtr, lam, ytr) ==
    FSolve(K_train_train_reg, ytr)

Alpha(K_train_train_reg, singular, base, Xtr, lam, ytr) ==
    IF singular
    THEN PinvTimes(K_train_train_reg, ScaledReg(base, Xtr, lam), ytr)
    ELSE FSolve(K_train_train_reg, ytr)

\* if not self._trained
ModelNotTrainedAlways(is_trained) == TRUE

ModelNotTrained(is_trained) == ~is_trained

\* the result for an empty training set: np.zeros(n_test_samples)
EmptyTrainingPredictionsPerTrainRow(n_test_samples, n_train_samples) ==
    Zeros(n_train_samples)

EmptyTrainingPredictions(n_test_samples, n_train_samples) == Zeros(n_test_samples)

\* what predict(X_test) does on an instance with the given attributes
PredictOutcome(base, lam, Xtr, ytr, is_trained, X_test) ==
    LET call == [NoCall EXCEPT !.call = "predict", !.n_test = Len(X_test),
                               !.X_test = X_test]
    IN  IF ModelNotTrained(is_trained)
        THEN [call EXCEPT !.outcome = "RuntimeError"]
        ELSE IF Len(Val(Xtr)) = 0
        THEN [call EXCEPT !.outcome = "returned",
                          !.predictions =
                              EmptyTrainingPredictions(Len(X_test), Len(Val(Xtr)))]
        ELSE IF Len(Val(ytr)) # Len(Val(Xtr))
        THEN [call EXCEPT !.outcome = "ValueError", !.kernel_built = TRUE]
        ELSE LET singular == SingularReg(base, Val(Xtr), lam)
             IN  [call EXCEPT
                    !.outcome = "returned",
                    !.kernel_built = TRUE,
                    !.warned = singular,
                    !.solved = IF singular THEN "pinv" ELSE "solve",
                    !.predictions =
                        MatVec(rbf_kernel(base, X_test, Val(Xtr)),
                               Alpha(Regularized(rbf_kernel(base, Val(Xtr), Val(Xtr)), lam),
                                     singular, base, Val(Xtr), lam, Val(ytr)))]

\* predict(X_test)
KRRPredict(X_test) ==
    /\ krr_last' = [PredictOutcome(sigma, lambda_reg, X_train, y_train, trained, X_test)
                       EXCEPT !.fitted_before = fit_completed]
    /\ UNCHANGED <<krrFields, fit_completed, calls>>
    /\ UNCHANGED <<loVars, stlVars>>

KRRNext ==
    \/ \E X \in Matrices, y \in Targets : KRRFit(X, y)
    \/ \E X_test \in TestMatrices : KRRPredict(X_test)

SpecKRR == KRRInit /\ [][KRRNext]_vars

\* ---------------------------------- predict, statement by statement, by
\* several callers at once
\* the test matrices of the concurrent calls: no row or one row
SingleRowTests == {<<>>} \cup {<<r>> : r \in FeatureRows}

\* self.X_train after line 121, which assigns the local name X_test
XTrainAfterAsarrayOfSelf(Xtr, X_test) == Some(X_test)

XTrainAfterAsarray(Xtr, X_test) == Xtr

\* caller t enters predict(X_test)
PredictCall(t, X_test) ==
    /\ calls[t].pc \in {"idle", "done"}
    /\ calls' = [calls EXCEPT ![t] =
                    [NotCalling EXCEPT
                        !.pc = "check", !.X_test = X_test,
                        !.result = [NoCall EXCEPT !.call = "predict",
                                                  !.n_test = Len(X_test),
                                                  !.X_test = X_test],
                        !.at_call = krrFields]]
    /\ UNCHANGED <<krrFields, krr_last, fit_completed>>
    /\ UNCHANGED <<loVars, stlVars>>

\* if not self._trained: raise
PredictCheckTrained(t) ==
    /\ calls[t].pc = "check"
    /\ calls' = [calls EXCEPT ![t] =
                    IF ModelNotTrained(trained)
                    THEN [@ EXCEPT !.pc = "done", !.result.outcome = "RuntimeError"]
                    ELSE [@ EXCEPT !.pc = "shapes"]]
    /\ UNCHANGED <<krrFields, krr_last, fit_completed>>
    /\ UNCHANGED <<loVars, stlVars>>

\* X_test = np.asarray(X_test), the two row counts, and the early return on
\* an empty training set
PredictShapes(t) ==
    /\ calls[t].pc = "shapes"
    /\ X_train' = XTrainAfterAsarray(X_train, calls[t].X_test)
    /\ calls' = [calls EXCEPT ![t] =
                    IF Len(Val(X_train)) = 0
                    THEN [@ EXCEPT !.pc = "done",
                                   !.result.outcome = "returned",
                                   !.result.predictions =
                                       EmptyTrainingPredictions(Len(calls[t].X_test),
                                                                Len(Val(X_train)))]
                    ELSE [@ EXCEPT !.pc = "k_test"]]
    /\ UNCHANGED <<sigma, lambda_reg, y_train, trained, krr_last, fit_completed>>
    /\ UNCHANGED <<loVars, stlVars>>

\* K_test_train = self._rbf_kernel(X_test, self.X_train)
PredictKTestTrain(t) ==
    /\ calls[t].pc = "k_test"
    /\ calls' = [calls EXCEPT ![t] =
                    [@ EXCEPT !.pc = "k_train",
                              !.K_test_train = rbf_kernel(sigma, calls[t].X_test, Val(X_train)),
                              !.result.kernel_built = TRUE]]
    /\ UNCHANGED <<krrFields, krr_last, fit_completed>>
    /\ UNCHANGED <<loVars, stlVars>>

\* K_train_train and K_train_train_reg
PredictKTrainTrain(t) ==
    /\ calls[t].pc = "k_train"
    /\ calls' = [calls EXCEPT ![t] =
                    [@ EXCEPT !.pc = "solve",
                              !.K_train_train_reg =
                                  Regularized(rbf_kernel(sigma, Val(X_train), Val(X_train)),
                                              lambda_reg),
                              !.singular = SingularReg(sigma, Val(X_train), lambda_reg),
                              !.X_seen = Val(X_train)]]
    /\ UNCHANGED <<krrFields, krr_last, fit_completed>>
    /\ UNCHANGED <<loVars, stlVars>>

\* try: alpha = solve(K_train_train_reg, self.y_train); except: warning, pinv
PredictSolve(t) ==
    /\ calls[t].pc = "solve"
    /\ calls' = [calls EXCEPT ![t] =
                    IF Len(Val(y_train)) # NRows(calls[t].K_train_train_reg)
                    THEN [@ EXCEPT !.pc = "done", !.result.outcome = "ValueError"]
                    ELSE [@ EXCEPT !.pc = "return",
                                   !.alpha = Alpha(calls[t].K_train_train_reg, calls[t].singular, sigma,
                                                   calls[t].X_seen, lambda_reg, Val(y_train)),
                                   !.result.warned = calls[t].singular,
                                   !.result.solved =
                                       IF calls[t].singular THEN "pinv" ELSE "solve"]]
    /\ UNCHANGED <<krrFields, krr_last, fit_completed>>
    /\ UNCHANGED <<loVars, stlVars>>

\* predictions = K_test_train @ alpha; return predictions
PredictReturn(t) ==
    /\ calls[t].pc = "return"
    /\ calls' = [calls EXCEPT ![t] =
                    [@ EXCEPT !.pc = "done",
                              !.result.outcome = "returned",
                              !.result.predictions = MatVec(calls[t].K_test_train, calls[t].alpha)]]
    /\ UNCHANGED <<krrFields, krr_last, fit_completed>>
    /\ UNCHANGED <<loVars, stlVars>>

\* fit is called only while no caller is inside predict or holds a result
QuiescentFit(X, y) ==
    /\ \A t \in Callers : calls[t].pc = "idle"
    /\ KRRFit(X, y)

KRRConcurrentInit ==
    /\ KRRInit
    /\ sigma = 2
    /\ lambda_reg = 0

KRRConcurrentNext ==
    \/ \E X \in Matrices, y \in Targets : QuiescentFit(X, y)
    \/ \E t \in Callers :
          \/ \E X_test \in SingleRowTests : PredictCall(t, X_test)
          \/ PredictCheckTrained(t)
          \/ PredictShapes(t)
          \/ PredictKTestTrain(t)
          \/ PredictKTrainTrain(t)
          \/ PredictSolve(t)
          \/ PredictReturn(t)

SpecKRRConcurrent == KRRConcurrentInit /\ [][KRRConcurrentNext]_vars

\* ------------------------------------------------- loess_1d, step by step
Bandwidths == {<<1, 4>>, <<2, 3>>, <<1, 1>>}

SeqsUpTo(S, m) == UNION {[1..k -> S] : k \in 0..m}

LoessInit ==
    /\ \E k \in 0..MaxLen :
          /\ lo_y \in [1..k -> Values]
          /\ lo_x \in [1..k -> Coords]
    /\ lo_points \in SeqsUpTo(Coords, 2)
    /\ lo_bandwidth \in Bandwidths
    /\ lo_pc = "call"
    /\ lo_i = 1
    /\ lo_estimated_points = <<>>
    /\ lo_locals = Unassigned
    /\ STLIdle
    /\ KRRIdle

\* entry of loess_1d up to the for loop: the n == 0 early return, or
\* estimated_points = zeros
LoessEnter ==
    /\ lo_pc = "call"
    /\ lo_estimated_points' = Zeros(Len(lo_points))
    /\ lo_i' = 1
    /\ lo_pc' = IF Len(lo_x) = 0 THEN "returned" ELSE "loop"
    /\ UNCHANGED <<lo_y, lo_x, lo_points, lo_bandwidth, lo_locals, stlVars, krrVars>>

lo_x_sorted == Take(lo_x, argsort(lo_x))
lo_y_sorted == Take(lo_y, argsort(lo_x))

\* a and b after the try statement of an iteration whose local fit is r,
\* where prev holds a and b as the iteration before left them
LocalsAfterStaleSlope(prev, r) ==
    [a |-> r.a, b |-> IF r.branch = "solve" THEN r.b ELSE prev.b]

LocalsAfter(prev, r) == [a |-> r.a, b |-> r.b]

\* one iteration of the for loop: the local fit at points[i], then
\* estimated_points[i] = a + b * p
LoessIter ==
    /\ lo_pc = "loop"
    /\ lo_i <= Len(lo_points)
    /\ lo_locals' = LocalsAfter(lo_locals,
                                LoessPoint(lo_x_sorted, lo_y_sorted, lo_points[lo_i],
                                           lo_bandwidth))
    /\ lo_estimated_points' =
          [lo_estimated_points EXCEPT ![lo_i] =
              FAdd(lo_locals'.a, FMul(lo_locals'.b, F(lo_points[lo_i])))]
    /\ lo_i' = lo_i + 1
    /\ UNCHANGED <<lo_y, lo_x, lo_points, lo_bandwidth, lo_pc, stlVars, krrVars>>

LoessReturn ==
    /\ lo_pc = "loop"
    /\ lo_i > Len(lo_points)
    /\ lo_pc' = "returned"
    /\ UNCHANGED <<lo_y, lo_x, lo_points, lo_bandwidth, lo_i, lo_estimated_points,
                   lo_locals, stlVars, krrVars>>

LoessNext == LoessEnter \/ LoessIter \/ LoessReturn

SpecLoess == LoessInit /\ [][LoessNext]_vars

\* ================================================================ claims
\* C1  STL additive identity: whenever the instance holds components (from
\* the moment fit has initialised them, after every completed inner pass,
\* and in every state after fit has returned), seasonal[t] + trend[t] +
\* residual[t] = data[t] at every index t of the fitted series.
C1_AdditiveIdentity ==
    residual # None =>
        /\ self_data # None
        /\ \A t \in 1..self_n :
              FAdd(FAdd(Val(seasonal)[t], Val(trend)[t]), Val(residual)[t])
                  = Val(self_data)[t]

\* a fit has returned after at least one pass, with a seasonal component and
\* a residual that are both non-zero at some index
C1_Witness ==
    /\ stl_pc = "idle" /\ stl_outcome = "returned"
    /\ n_inner_iterations > 0
    /\ \E t \in 1..self_n : Val(residual)[t] # 0 /\ Val(seasonal)[t] # 0

\* C2  After fit has returned on a one-dimensional series of length n,
\* get_components() is a mapping with exactly the keys seasonal, trend and
\* residual, and each of the three is an array of length n; this includes
\* n = 0 and a seasonal period larger than n.
ComponentNames == {"seasonal", "trend", "residual"}

C2_ComponentsOfLengthN ==
    (stl_pc = "idle" /\ stl_outcome = "returned") =>
        /\ DOMAIN get_components = ComponentNames
        /\ \A name \in ComponentNames :
              /\ get_components[name] # None
              /\ Len(Val(get_components[name])) = Len(Val(self_data))

\* a second fit has returned, on a non-empty series shorter than the
\* seasonal period, after at least one pass
C2_Witness ==
    /\ stl_pc = "idle" /\ stl_outcome = "returned"
    /\ stl_fits = 2
    /\ n_inner_iterations > 0
    /\ self_n > 0 /\ seasonal_period > self_n
    /\ Len(Val(get_components["trend"])) = self_n

\* C3  predict raises the not-trained error exactly when no fit call has
\* completed on the instance before it.
C3_NotTrainedIffNoFit ==
    krr_last.call = "predict" =>
        (krr_last.outcome = "RuntimeError" <=> ~krr_last.fitted_before)

\* a predict call made after a fit has returned predictions
C3_Witness ==
    /\ krr_last.call = "predict"
    /\ krr_last.fitted_before
    /\ krr_last.outcome = "returned"
    /\ krr_last.n_test > 0

\* C4  (as the specification states it) With no span supplied, the spans in
\* use during a fit on a series of length n are 7 / n for the seasonal
\* smoother and n_trend_bandwidth / n for the trend smoother, for the n of
\* that very call, second and later fits included.  Fractions are compared
\* by cross-multiplication.
C4_DefaultSpansOfThisCall ==
    (/\ stl_pc = "fit"
     /\ stl_args.seasonal_smoother_span = None
     /\ stl_args.trend_smoother_span = None) =>
        /\ Val(seasonal_smoother_span)[1] * self_n
              = 7 * Val(seasonal_smoother_span)[2]
        /\ Val(trend_smoother_span)[1] * self_n
              = Val(n_trend_bandwidth) * Val(trend_smoother_span)[2]

\* C5  (as the specification states it) A shape violation is raised by the
\* call that receives it: a fit(X, y) of SimpleRBFKernelRegression whose X
\* has a row count different from len(y) does not return, so a trained
\* instance holds as many training rows as targets.
C5_ShapeViolationRaisedByFit ==
    /\ (krr_last.call = "fit" /\ krr_last.outcome = "returned") =>
            Len(Val(X_train)) = Len(Val(y_train))
    /\ trained => Len(Val(X_train)) = Len(Val(y_train))

\* C5, the SimpleSTL half: a fit on an input that is not one-dimensional (or
\* not an array) raises before it changes any attribute of the instance.
C5_STLRaisesBeforeAnyChange ==
    [][stl_outcome' \in {"ValueError", "TypeError"} /\ stl_fits' # stl_fits
          => UNCHANGED <<stlConfig, stlSpans, stlResult, stlData, stl_pc>>]_vars

\* ceil(b * n) clipped as the specification writes it
ClaimedWindowSize(n, bandwidth) ==
    LET c == CeilDiv(bandwidth[1] * n, bandwidth[2])
        m == IF c > n THEN n ELSE c
    IN  IF m < 2 THEN 2 ELSE m

\* C6  (as the specification states it) For n >= 1 observations and a
\* bandwidth b in (0, 1], the window size is max(2, min(n, ceil(b * n))) and
\* satisfies 2 <= w <= n.
C6_WindowSizeAsClaimed ==
    Len(lo_x) >= 1 =>
        LET w == WindowSize(Len(lo_x), lo_bandwidth)
        IN  /\ w = ClaimedWindowSize(Len(lo_x), lo_bandwidth)
            /\ 2 <= w /\ w <= Len(lo_x)

\* C6  (amended) For n >= 2 observations and a bandwidth b in (0, 1], the
\* window size is max(2, min(n, ceil(b * n))) and satisfies 2 <= w <= n; for
\* n = 1 the window is the single observation, w = 1.  Every query point of
\* a call is estimated from a window of exactly that many observations.
C6_WindowSize ==
    Len(lo_x) >= 1 =>
        LET n == Len(lo_x)
            w == WindowSize(n, lo_bandwidth)
        IN  /\ n >= 2 => /\ w = ClaimedWindowSize(n, lo_bandwidth)
                         /\ 2 <= w /\ w <= n
            /\ n = 1 => w = 1
            /\ \A i \in 1..Len(lo_points) :
                  Len(Window(lo_x_sorted, lo_y_sorted, lo_points[i],
                             lo_bandwidth).x_window) = w

\* loess_1d has returned the estimates of a call on a single observation,
\* each of them that observation's value
C6_Witness ==
    /\ lo_pc = "returned"
    /\ Len(lo_x) = 1
    /\ Len(lo_points) = 2
    /\ lo_y[1] # 0
    /\ \A i \in 1..2 : lo_estimated_points[i] = F(lo_y[1])

\* C7  When the regularised kernel system of a predict call is singular,
\* the call does not fail: it returns one prediction per test row, computed
\* with the pseudo-inverse of the system matrix, and a warning is printed.
C7_SingularSystemUsesPinv ==
    (/\ krr_last.call = "predict"
     /\ trained
     /\ Len(Val(X_train)) > 0
     /\ Len(Val(y_train)) = Len(Val(X_train))
     /\ SingularReg(sigma, Val(X_train), lambda_reg)) =>
        /\ krr_last.outcome = "returned"
        /\ krr_last.warned
        /\ krr_last.solved = "pinv"
        /\ Len(krr_last.predictions) = krr_last.n_test
        /\ krr_last.predictions =
              MatVec(rbf_kernel(sigma, krr_last.X_test, Val(X_train)),
                     PinvTimes(Regularized(rbf_kernel(sigma, Val(X_train), Val(X_train)),
                                           lambda_reg),
                               ScaledReg(sigma, Val(X_train), lambda_reg),
                               Val(y_train)))

\* a predict call on a singular system has returned a non-zero prediction
C7_Witness ==
    /\ krr_last.call = "predict"
    /\ krr_last.solved = "pinv"
    /\ krr_last.outcome = "returned"
    /\ \E k \in 1..krr_last.n_test : krr_last.predictions[k] # 0

\* C8  At a query point whose weighted normal equations are singular, the
\* estimate is the weighted mean of the window's y values, or their plain
\* mean when the weights sum to less than 1e-9; no error reaches the caller
\* and the call returns an estimate for every query point.  The means are
\* stated without division: estimate * sum(w) = sum(w * y), and
\* estimate * |window| = sum(y).
C8_SingularFallback ==
    /\ \A i \in 1..Len(lo_points) :
          (lo_pc \in {"loop", "returned"} /\ Len(lo_x) > 0 /\ i < lo_i) =>
              LET win == Window(lo_x_sorted, lo_y_sorted, lo_points[i], lo_bandwidth)
                  w == Weights(win.dist_window, MaxSeq(win.dist_window))
                  est == lo_estimated_points[i]
              IN  SingularXTWX(w.num, win.x_window) =>
                      IF LtEps(SumSeq(w.num), w.den)
                      THEN FMul(est, F(Len(win.y_window))) = FSum(win.y_window)
                      ELSE FMul(est, F(SumSeq(w.num)))
                              = FSum([k \in DOMAIN w.num |->
                                         FMul(F(w.num[k]), win.y_window[k])])
    /\ lo_pc = "returned" => Len(lo_estimated_points) = Len(lo_points)

\* a call has returned in which one query point fell back to the plain mean
\* and another to the weighted mean, both with a non-zero estimate
C8_Witness ==
    /\ lo_pc = "returned" /\ Len(lo_x) > 0
    /\ \E i, j \in 1..Len(lo_points) :
          /\ LoessPoint(lo_x_sorted, lo_y_sorted, lo_points[i], lo_bandwidth).branch
                = "mean"
          /\ LoessPoint(lo_x_sorted, lo_y_sorted, lo_points[j], lo_bandwidth).branch
                = "weighted_mean"
          /\ lo_estimated_points[i] # 0 /\ lo_estimated_points[j] # 0

\* C9  predict on an instance fitted with an empty training set returns
\* zeros, one per test row, without building a kernel matrix and without
\* solving a system.
C9_EmptyTrainingSetGivesZeros ==
    (krr_last.call = "predict" /\ trained /\ Len(Val(X_train)) = 0) =>
        /\ krr_last.outcome = "returned"
        /\ krr_last.predictions = Zeros(krr_last.n_test)
        /\ ~krr_last.kernel_built
        /\ krr_last.solved = "no"
        /\ ~krr_last.warned

\* predict has returned for two test rows on an empty training set
C9_Witness ==
    /\ krr_last.call = "predict" /\ trained /\ Len(Val(X_train)) = 0
    /\ krr_last.n_test = 2
    /\ krr_last.predictions = <<0, 0>>

\* w is the smallest odd integer with w * den >= num, raised to 3
SmallestOddAtLeast(w, num, den) ==
    /\ w % 2 = 1
    /\ w >= 3
    /\ w * den >= num
    /\ w = 3 \/ (w - 2) * den < num

\* C10  A window size the caller did not supply is, once fit has computed
\* it, odd and at least 3: for the trend the smallest odd integer >= 1.5 *
\* seasonal_period, for the low-pass filter the smallest odd integer >=
\* seasonal_period, each raised to 3 if smaller.
C10_DefaultWindowsOdd ==
    /\ (stl_args.n_trend_bandwidth = None /\ n_trend_bandwidth # None) =>
            SmallestOddAtLeast(Val(n_trend_bandwidth), 3 * seasonal_period, 2)
    /\ (stl_args.n_lowpass_bandwidth = None /\ n_lowpass_bandwidth # None) =>
            SmallestOddAtLeast(Val(n_lowpass_bandwidth), seasonal_period, 1)

\* a fit with seasonal_period 4 and no window supplied has returned with the
\* windows 7 and 5
C10_Witness ==
    /\ stl_pc = "idle" /\ stl_outcome = "returned"
    /\ seasonal_period = 4
    /\ stl_args.n_trend_bandwidth = None /\ stl_args.n_lowpass_bandwidth = None
    /\ n_trend_bandwidth = Some(7) /\ n_lowpass_bandwidth = Some(5)

\* C11  predict only reads the fitted instance.  While a caller is inside
\* predict, and when its call has ended (returning or raising), X_train,
\* y_train, the trained flag, sigma and lambda_reg are what they were when the
\* call was made; and whatever the interleaving with the other callers, the
\* call ends with the result the same call gives when run alone on the
\* instance as it was when the call was made.
C11_PredictOnlyReads ==
    \A t \in Callers :
        calls[t].pc # "idle" =>
            /\ krrFields = calls[t].at_call
            /\ calls[t].pc = "done" =>
                  LET c == calls[t].at_call
                  IN  calls[t].result =
                          PredictOutcome(c[1], c[2], c[3], c[4], c[5], calls[t].X_test)

\* two calls on a fitted instance have both returned a non-zero prediction,
\* for different test rows
C11_Witness ==
    /\ trained
    /\ \A t \in Callers :
          /\ calls[t].pc = "done"
          /\ calls[t].result.outcome = "returned"
          /\ Len(calls[t].result.predictions) = 1
          /\ calls[t].result.predictions[1] # 0
    /\ calls[1].X_test # calls[2].X_test

\* C12  A fit call on a non-empty series runs exactly
\* (n_outer_iterations + 1) * n_inner_iterations inner passes and then stops.
\* The detrend step of the first pass of every fit call, a re-fit included,
\* uses an all-zero trend; the detrend step of every later pass, the first
\* pass of a later outer iteration included, uses the trend written by step 6
\* of the pass before it.  After every pass the instance holds what the
\* seven steps, in their order, give from the trend the pass used.
C12_PassesInOrder ==
    LET h == stl_history
        total == (n_outer_iterations + 1) * n_inner_iterations
    IN  /\ (stl_pc = "idle" /\ stl_outcome = "returned" /\ self_n > 0) => Len(h) = total
        /\ stl_pc = "fit" =>
              /\ Len(h) <= total
              /\ Len(h) = outer_iter * n_inner_iterations + inner_iter
        /\ \A j \in 1..Len(h) :
              h[j].used_trend = IF j = 1 THEN Zeros(self_n) ELSE h[j - 1].wrote_trend
        /\ (stl_pc = "fit" /\ inner_iter > 0) =>
              [seasonal |-> Val(seasonal), trend |-> Val(trend), residual |-> Val(residual)]
                  = InnerPass(Val(self_data), Val(self_times), h[Len(h)].used_trend,
                              seasonal_period, Val(seasonal_smoother_span),
                              Val(trend_smoother_span), Val(lowpass_smoother_span))
        /\ Len(h) > 0 => h[Len(h)].wrote_trend = Val(trend)

\* the second fit of an instance with one outer and two inner iterations has
\* returned after four passes, the third of which, the first pass of the
\* second outer iteration, started from a non-zero trend
C12_Witness ==
    /\ stl_pc = "idle" /\ stl_outcome = "returned"
    /\ stl_fits = 2
    /\ n_outer_iterations = 1 /\ n_inner_iterations = 2
    /\ Len(stl_history) = 4
    /\ stl_history[3].used_trend # Zeros(self_n)

\* C13  Outer iterations only multiply the number of inner passes: when a
\* fit with n_outer_iterations = k and n_inner_iterations = m has returned,
\* seasonal, trend and residual are those of a fit of the same series, with
\* the same spans, with n_outer_iterations = 0 and n_inner_iterations =
\* (k + 1) * m.
C13_OuterOnlyMultiplies ==
    (stl_pc = "idle" /\ stl_outcome = "returned" /\ self_n > 0) =>
        [seasonal |-> Val(seasonal), trend |-> Val(trend), residual |-> Val(residual)]
            = FitWithoutOuter(Val(self_data), Val(self_times), seasonal_period,
                              Val(seasonal_smoother_span), Val(trend_smoother_span),
                              Val(lowpass_smoother_span),
                              (n_outer_iterations + 1) * n_inner_iterations)

\* a fit with one outer and two inner iterations has returned with a
\* non-zero seasonal component and a non-zero trend
C13_Witness ==
    /\ stl_pc = "idle" /\ stl_outcome = "returned"
    /\ n_outer_iterations = 1 /\ n_inner_iterations = 2
    /\ self_n > 1
    /\ Val(seasonal) # Zeros(self_n)
    /\ Val(trend) # Zeros(self_n)

\* the low-pass spans of the other fit: given to __init__, or the default
\* n_lowpass_bandwidth / n for a given or default n_lowpass_bandwidth
OtherLowpassSpans(n) == {<<1, 2>>, <<1, 1>>, <<3, n>>, <<5, n>>}

\* C14  The low-pass bandwidth does not influence the decomposition: when a
\* fit has returned, seasonal, trend and residual are those of a fit of the
\* same series by an instance that differs only in its low-pass span
\* (whether given as lowpass_smoother_span or derived from
\* n_lowpass_bandwidth).
C14_LowpassWithoutInfluence ==
    (stl_pc = "idle" /\ stl_outcome = "returned" /\ self_n > 0) =>
        \A lspan \in OtherLowpassSpans(self_n) :
            [seasonal |-> Val(seasonal), trend |-> Val(trend), residual |-> Val(residual)]
                = FitWithoutOuter(Val(self_data), Val(self_times), seasonal_period,
                                  Val(seasonal_smoother_span), Val(trend_smoother_span),
                                  lspan, n_inner_iterations)

\* a fit by an instance given a low-pass span that differs from its trend
\* span has returned, after a pass, with a non-zero seasonal component
C14_Witness ==
    /\ stl_pc = "idle" /\ stl_outcome = "returned"
    /\ n_inner_iterations > 0
    /\ self_n > 2
    /\ stl_args.lowpass_smoother_span # None
    /\ Val(lowpass_smoother_span)[1] * Val(trend_smoother_span)[2]
          # Val(trend_smoother_span)[1] * Val(lowpass_smoother_span)[2]
    /\ Val(seasonal) # Zeros(self_n)

\* C15  Each query point of loess_1d is evaluated independently: the
\* estimate at position i of a call is the estimate a call with the same
\* observations and bandwidth and the single query point points[i] returns,
\* whatever the other query points of the call, their order and the branch
\* (solve or fallback) taken at earlier ones; and the call returns one
\* estimate per query point.
C15_QueryPointsIndependent ==
    /\ \A i \in 1..Len(lo_points) :
          (lo_pc = "returned" \/ (lo_pc = "loop" /\ i < lo_i)) =>
              lo_estimated_points[i]
                  = loess_1d(lo_y, lo_x, <<lo_points[i]>>, lo_bandwidth)[1]
    /\ lo_pc \in {"loop", "returned"} => Len(lo_estimated_points) = Len(lo_points)

\* a call has returned whose first query point was solved with a non-zero
\* slope and whose second query point, not at 0, took the fallback
C15_Witness ==
    /\ lo_pc = "returned" /\ Len(lo_x) > 0
    /\ Len(lo_points) = 2
    /\ lo_points[2] # 0
    /\ LET first == LoessPoint(lo_x_sorted, lo_y_sorted, lo_points[1], lo_bandwidth)
           second == LoessPoint(lo_x_sorted, lo_y_sorted, lo_points[2], lo_bandwidth)
       IN  /\ first.branch = "solve" /\ first.b # 0
           /\ second.branch # "solve"
           /\ lo_estimated_points[2] = second.a

====
